---- MODULE Spec2Model ----
(***************************************************************************)
(* Model of the Volume Select add-on (src/VolumeSelect.py): the scene's    *)
(* ordered list of threshold ranges with its add / remove / move           *)
(* operators, and the operator that selects the loose parts of the edit    *)
(* mesh whose world-space bounding-box volume falls into a range.          *)
(*                                                                         *)
(* Numbers.  Volumes and range bounds are floats in the add-on.  Here they *)
(* are integers counting tenths of a unit^3, so that the default           *)
(* max_value of 0.1 is the integer 1; vertex coordinates are whole units.  *)
(* Collection indices are 0-based as in the code; a TLA+ sequence is       *)
(* 1-based, hence the "+ 1" wherever a collection is indexed.              *)
(*                                                                         *)
(* The select attribute of a mesh element is modelled as a plain           *)
(* per-element flag: vsel, esel and fsel hold the elements whose flag is   *)
(* set.                                                                    *)
(***************************************************************************)
EXTENDS Integers, Sequences, FiniteSets, TLC

VARIABLES
    ls_ranges,          \* Scene.ls_ranges: the ordered collection of LS_ThresholdItem
    ls_ranges_index,    \* Scene.ls_ranges_index: the active row, -1 when there is none
    verts,              \* bm.verts
    edges,              \* bm.edges, each edge the set of its two vertices
    faces,              \* bm.faces, each face the set of its vertices
    co,                 \* v.co, the local position of each vertex
    link_edges,         \* v.link_edges, the edges around each vertex in iteration order
    hash_order,         \* the order in which set(bm.verts).pop() hands out the vertices
    matrix_world,       \* obj.matrix_world
    mesh_select_mode,   \* tool_settings.mesh_select_mode: <<verts, edges, faces>>
    vsel, esel, fsel,   \* the vertices, edges and faces whose select flag is set
    parts,              \* execute's local `parts` as the last run left it
    volumes,            \* execute's local `volumes` as the last run left it
    hits,               \* per part: position of the range the loop stopped at, 0 if none
    last,               \* what the last run of select_by_ranges read and wrote, and
                        \* in last.prev what the run before it wrote
    op                  \* the operator that made the last step

rangeVars == <<ls_ranges, ls_ranges_index>>
meshVars  == <<verts, edges, faces, co, link_edges, hash_order, matrix_world>>
selVars   == <<vsel, esel, fsel>>
runVars   == <<parts, volumes, hits, last>>
vars      == <<rangeVars, meshVars, mesh_select_mode, selVars, runVars, op>>

(***************************************************************************)
(* Bounds of the model.                                                    *)
(***************************************************************************)
MaxRanges == 3      \* longest range list the list operators build
MaxVerts  == 3      \* largest vertex count of the enumerated meshes
MaxList   == 2      \* longest range list handed to the select operator

(***************************************************************************)
(* Small helpers.                                                          *)
(***************************************************************************)
Min2(a, b) == IF a <= b THEN a ELSE b
Max2(a, b) == IF a >= b THEN a ELSE b
Abs(x)     == IF x < 0 THEN -x ELSE x
SetMin(S)  == CHOOSE x \in S : \A y \in S : x <= y
SetMax(S)  == CHOOSE x \in S : \A y \in S : x >= y
Range(s)   == {s[i] : i \in DOMAIN s}
Units(n)   == 10 * n        \* n whole units^3 in tenths

Perms(S) ==
    {s \in [1..Cardinality(S) -> S] : \A i, j \in DOMAIN s : i # j => s[i] # s[j]}

IsPermutation(s, t) ==
    /\ Len(s) = Len(t)
    /\ \E p \in Perms(DOMAIN s) : \A i \in DOMAIN s : t[i] = s[p[i]]

\* Python's None, and a value that is not None, in one comparable shape.
None    == <<>>
Some(x) == <<x>>

(***************************************************************************)
(* LS_ThresholdItem and the bpy collection operations the operators use.   *)
(***************************************************************************)
DefaultMinValue == 0
DefaultMaxValue == 1

\* collection.add(): a new item holding the property defaults.
NewItem ==
    [ use_min |-> FALSE, min_value |-> DefaultMinValue,
      use_max |-> FALSE, max_value |-> DefaultMaxValue,
      label   |-> 0 ]

\* collection.remove(idx), idx 0-based; an index outside the collection removes nothing.
RemoveAt(s, idx) ==
    IF idx < 0 \/ idx >= Len(s) THEN s
    ELSE [k \in 1..(Len(s) - 1) |-> IF k <= idx THEN s[k] ELSE s[k + 1]]

\* collection.move(src, dst), both 0-based: the item at src ends at dst.
MoveItem(s, src, dst) ==
    LET rest == RemoveAt(s, src)
    IN  [k \in 1..Len(s) |->
            IF k = dst + 1 THEN s[src + 1]
            ELSE IF k <= dst THEN rest[k] ELSE rest[k - 1]]

(***************************************************************************)
(* LS_OT_add_range.execute                                                 *)
(***************************************************************************)
add_range ==
    /\ Len(ls_ranges) < MaxRanges
    /\ LET n == Len(ls_ranges) + 1
       IN  /\ ls_ranges' = Append(ls_ranges, [NewItem EXCEPT !.label = n])
           /\ ls_ranges_index' = n - 1
    /\ op' = "add_range"
    /\ UNCHANGED <<meshVars, mesh_select_mode, selVars, runVars>>

(***************************************************************************)
(* LS_OT_remove_range: poll and execute                                    *)
(***************************************************************************)
remove_range_poll == Len(ls_ranges) > 0 /\ ls_ranges_index >= 0

RemoveIndexUnclamped(idx, newLen) == Max2(0, idx - 1)

RemoveIndex(idx, newLen) == Min2(Max2(0, idx - 1), newLen - 1)

remove_range ==
    /\ remove_range_poll
    /\ LET idx == ls_ranges_index
           removed == RemoveAt(ls_ranges, idx)
       IN  /\ ls_ranges' = removed
           /\ ls_ranges_index' = RemoveIndex(idx, Len(removed))
    /\ op' = "remove_range"
    /\ UNCHANGED <<meshVars, mesh_select_mode, selVars, runVars>>

(***************************************************************************)
(* LS_OT_move_range: poll and execute                                      *)
(***************************************************************************)
move_range_poll == Len(ls_ranges) > 0 /\ ls_ranges_index >= 0

MoveTarget(direction, idx, n) ==
    IF direction = "UP" /\ idx > 0 THEN idx - 1
    ELSE IF direction = "DOWN" /\ idx < n - 1 THEN idx + 1
    ELSE idx

move_range(direction) ==
    /\ move_range_poll
    /\ LET idx == ls_ranges_index
           dst == MoveTarget(direction, idx, Len(ls_ranges))
       IN  /\ ls_ranges' = IF dst = idx THEN ls_ranges ELSE MoveItem(ls_ranges, idx, dst)
           /\ ls_ranges_index' = dst
    /\ op' = "move_range"
    /\ UNCHANGED <<meshVars, mesh_select_mode, selVars, runVars>>

move_range_up   == move_range("UP")
move_range_down == move_range("DOWN")

(***************************************************************************)
(* LS_PT_panel.draw: the box of the active range offers its use_min and    *)
(* use_max toggles.                                                        *)
(***************************************************************************)
panel_toggle(field) ==
    /\ ls_ranges_index >= 0 /\ ls_ranges_index < Len(ls_ranges)
    /\ ls_ranges' = [ls_ranges EXCEPT ![ls_ranges_index + 1][field] = ~@]
    /\ op' = "panel"
    /\ UNCHANGED <<ls_ranges_index, meshVars, mesh_select_mode, selVars, runVars>>

panel_toggle_use_min == panel_toggle("use_min")
panel_toggle_use_max == panel_toggle("use_max")

(***************************************************************************)
(* LS_OT_select_by_ranges.execute, part by part.  poll admits the operator *)
(* on a mesh object in edit mode; the mesh variables describe that mesh.   *)
(***************************************************************************)

\* "Build list of ranges": one (vmin, vmax) pair per item, None for a bound not in use.
BuildRange(item) ==
    << IF item.use_min THEN Some(item.min_value) ELSE None,
       IF item.use_max THEN Some(item.max_value) ELSE None >>

\* The list with the bounds of an inverted range put in order.
BuildRangesSorted(items) ==
    [k \in DOMAIN items |->
        LET r == BuildRange(items[k])
        IN  IF r[1] # None /\ r[2] # None /\ r[1][1] > r[2][1] THEN <<r[2], r[1]>> ELSE r]

BuildRanges(items) == [k \in DOMAIN items |-> BuildRange(items[k])]

\* unvisited.pop(): the first vertex of the set in the order the set hands them out.
SetPop(S, order) ==
    order[SetMin({k \in DOMAIN order : order[k] \in S})]

\* e.other_vert(v)
OtherVert(e, v) == CHOOSE u \in e : u # v

\* The scan without stack.append(u): the neighbours of a neighbour are never scanned.
RECURSIVE ScanLinkEdgesNoPush(_, _, _, _)
ScanLinkEdgesNoPush(v, k, st, link) ==
    IF k > Len(link[v]) THEN st
    ELSE LET u == OtherVert(link[v][k], v)
         IN  IF u \in st.unvisited
             THEN ScanLinkEdgesNoPush(v, k + 1,
                      [ unvisited |-> st.unvisited \ {u},
                        comp      |-> st.comp \cup {u},
                        stack     |-> st.stack ], link)
             ELSE ScanLinkEdgesNoPush(v, k + 1, st, link)

\* "for e in v.link_edges": from the k-th edge on.  st holds the locals
\* unvisited, comp and stack.
RECURSIVE ScanLinkEdges(_, _, _, _)
ScanLinkEdges(v, k, st, link) ==
    IF k > Len(link[v]) THEN st
    ELSE LET u == OtherVert(link[v][k], v)
         IN  IF u \in st.unvisited
             THEN ScanLinkEdges(v, k + 1,
                      [ unvisited |-> st.unvisited \ {u},
                        comp      |-> st.comp \cup {u},
                        stack     |-> Append(st.stack, u) ], link)
             ELSE ScanLinkEdges(v, k + 1, st, link)

\* "while stack": pop the last vertex and scan its edges.
RECURSIVE WalkStack(_, _)
WalkStack(st, link) ==
    IF st.stack = <<>> THEN st
    ELSE LET n == Len(st.stack)
             v == st.stack[n]
         IN  WalkStack(ScanLinkEdges(v, 1,
                           [st EXCEPT !.stack = SubSeq(st.stack, 1, n - 1)], link), link)

\* "while unvisited": one component per seed, appended to parts.
RECURSIVE FindParts(_, _, _, _)
FindParts(unvisited, acc, order, link) ==
    IF unvisited = {} THEN acc
    ELSE LET seed == SetPop(unvisited, order)
             st   == WalkStack([ unvisited |-> unvisited \ {seed},
                                 comp      |-> {seed},
                                 stack     |-> <<seed>> ], link)
         IN  FindParts(st.unvisited, Append(acc, st.comp), order, link)

\* obj.matrix_world @ v.co: the affine map m * p + t.
Dot(r, p) == r[1] * p[1] + r[2] * p[2] + r[3] * p[3]
Transform(M, p) ==
    << Dot(M.m[1], p) + M.t[1], Dot(M.m[2], p) + M.t[2], Dot(M.m[3], p) + M.t[3] >>

\* "Compute world-space bounding-box volumes", for one component, in tenths.
ComponentVolume(comp, M, pos) ==
    LET world_coords == {Transform(M, pos[v]) : v \in comp}
        lo(a) == SetMin({c[a] : c \in world_coords})
        hi(a) == SetMax({c[a] : c \in world_coords})
        size  == [a \in 1..3 |-> hi(a) - lo(a)]
    IN  Units(Abs(size[1] * size[2] * size[3]))

\* The clearing that leaves the vertex flags alone.
ClearSelectionKeepVerts(sel, mode) ==
    [ v |-> sel.v,
      e |-> IF mode[2] THEN {} ELSE sel.e,
      f |-> IF mode[3] THEN {} ELSE sel.f ]

\* The clearing that flips the flags instead of resetting them.
ClearSelectionFlip(sel, mode) ==
    [ v |-> IF mode[1] THEN verts \ sel.v ELSE sel.v,
      e |-> IF mode[2] THEN edges \ sel.e ELSE sel.e,
      f |-> IF mode[3] THEN faces \ sel.f ELSE sel.f ]

\* The clearing that leaves the face flags alone.
ClearSelectionKeepFaces(sel, mode) ==
    [ v |-> IF mode[1] THEN {} ELSE sel.v,
      e |-> IF mode[2] THEN {} ELSE sel.e,
      f |-> sel.f ]

\* "Clear selection": only the element types whose mode flag is on.
ClearSelection(sel, mode) ==
    [ v |-> IF mode[1] THEN {} ELSE sel.v,
      e |-> IF mode[2] THEN {} ELSE sel.e,
      f |-> IF mode[3] THEN {} ELSE sel.f ]

\* The loop with exclusive bounds.
RECURSIVE FirstHitExclusive(_, _, _)
FirstHitExclusive(ranges, k, vol) ==
    IF k > Len(ranges) THEN 0
    ELSE LET vmin == ranges[k][1]
             vmax == ranges[k][2]
         IN  IF vmin # None /\ vol <= vmin[1] THEN FirstHitExclusive(ranges, k + 1, vol)
             ELSE IF vmax # None /\ vol >= vmax[1] THEN FirstHitExclusive(ranges, k + 1, vol)
             ELSE k

\* The loop with break in place of continue: the first failing range ends it.
FirstHitStopAtFail(ranges, k, vol) ==
    IF k > Len(ranges) THEN 0
    ELSE LET vmin == ranges[k][1]
             vmax == ranges[k][2]
         IN  IF vmin # None /\ vol < vmin[1] THEN 0
             ELSE IF vmax # None /\ vol > vmax[1] THEN 0
             ELSE k

\* "for vmin, vmax in ranges": from the k-th range on.  The position of the range
\* at which the loop breaks with matched = True, 0 when the list runs out.
RECURSIVE FirstHit(_, _, _)
FirstHit(ranges, k, vol) ==
    IF k > Len(ranges) THEN 0
    ELSE LET vmin == ranges[k][1]
             vmax == ranges[k][2]
         IN  IF vmin # None /\ vol < vmin[1] THEN FirstHit(ranges, k + 1, vol)
             ELSE IF vmax # None /\ vol > vmax[1] THEN FirstHit(ranges, k + 1, vol)
             ELSE k

\* The blocks with the edge block under the vertex flag.
SelectComponentWrongFlag(comp, sel, mode, F, link) ==
    [ v |-> IF mode[1] THEN sel.v \cup comp ELSE sel.v,
      e |-> IF mode[1]
            THEN sel.e \cup {e \in UNION {Range(link[v]) : v \in comp} :
                                \A u \in e : u \in comp}
            ELSE sel.e,
      f |-> IF mode[3]
            THEN sel.f \cup {f \in F : \A u \in f : u \in comp}
            ELSE sel.f ]

\* The three "if use_..." blocks for one matched component.
SelectComponent(comp, sel, mode, F, link) ==
    [ v |-> IF mode[1] THEN sel.v \cup comp ELSE sel.v,
      e |-> IF mode[2]
            THEN sel.e \cup {e \in UNION {Range(link[v]) : v \in comp} :
                                \A u \in e : u \in comp}
            ELSE sel.e,
      f |-> IF mode[3]
            THEN sel.f \cup {f \in F : \A u \in f : u \in comp}
            ELSE sel.f ]

\* "for comp, vol in zip(parts, volumes)": from the i-th component on.
RECURSIVE SelectLoop(_, _, _, _, _, _, _, _)
SelectLoop(i, ps, vols, ranges, sel, mode, F, link) ==
    IF i > Min2(Len(ps), Len(vols)) THEN sel
    ELSE LET matched == FirstHit(ranges, 1, vols[i]) # 0
         IN  IF ~matched
             THEN SelectLoop(i + 1, ps, vols, ranges, sel, mode, F, link)
             ELSE SelectLoop(i + 1, ps, vols, ranges,
                             SelectComponent(ps[i], sel, mode, F, link), mode, F, link)

select_by_ranges ==
    LET ranges  == BuildRanges(ls_ranges)
        ps      == FindParts(verts, <<>>, hash_order, link_edges)
        vols    == [i \in DOMAIN ps |-> ComponentVolume(ps[i], matrix_world, co)]
        cleared == ClearSelection([v |-> vsel, e |-> esel, f |-> fsel], mesh_select_mode)
        sel     == SelectLoop(1, ps, vols, ranges, cleared, mesh_select_mode,
                              faces, link_edges)
    IN  /\ parts' = ps
        /\ volumes' = vols
        /\ hits' = [i \in DOMAIN ps |-> FirstHit(ranges, 1, vols[i])]
        /\ vsel' = sel.v
        /\ esel' = sel.e
        /\ fsel' = sel.f
        /\ last' = [ ran    |-> TRUE,
                     ranges |-> ranges,
                     mode   |-> mesh_select_mode,
                     before |-> <<vsel, esel, fsel>>,
                     after  |-> <<sel.v, sel.e, sel.f>>,
                     prev   |-> [ ran    |-> last.ran,
                                  ranges |-> last.ranges,
                                  mode   |-> last.mode,
                                  after  |-> last.after ] ]
        /\ op' = "select_by_ranges"
        /\ UNCHANGED <<rangeVars, meshVars, mesh_select_mode>>

(***************************************************************************)
(* The states the operators start from.                                    *)
(***************************************************************************)

\* register(): an empty collection, no active row.
InitRanges ==
    /\ ls_ranges = <<>>
    /\ ls_ranges_index = -1

NoRun ==
    [ ran |-> FALSE, ranges |-> <<>>, mode |-> <<FALSE, FALSE, FALSE>>,
      after |-> <<{}, {}, {}>> ]
NeverRan ==
    [ ran |-> FALSE, ranges |-> <<>>, mode |-> <<FALSE, FALSE, FALSE>>,
      before |-> <<{}, {}, {}>>, after |-> <<{}, {}, {}>>, prev |-> NoRun ]

InitRun ==
    /\ parts = <<>>
    /\ volumes = <<>>
    /\ hits = <<>>
    /\ last = NeverRan
    /\ op = "register"

\* Edit meshes.  An edge joins two distinct vertices; a face is a triangle whose
\* three sides are edges of the mesh; link_edges[v] lists exactly the edges at v.
AllEdges(V)     == {e \in SUBSET V : Cardinality(e) = 2}
Triangles(V, E) == {t \in SUBSET V : Cardinality(t) = 3 /\ AllEdges(t) \subseteq E}
Incident(v, E)  == {e \in E : v \in e}

AscendingSeq(S) ==
    CHOOSE s \in Perms(S) : \A i, j \in DOMAIN s : i < j => s[i] < s[j]

\* The edges at v, nearest other vertex first / last.
LinkAscending(V, E) ==
    [v \in V |-> LET nb == AscendingSeq({OtherVert(e, v) : e \in Incident(v, E)})
                 IN  [k \in DOMAIN nb |-> {v, nb[k]}]]
\* Every order of the edges at every vertex, for the vertices 1..n.
RECURSIVE LinkOrders(_, _)
LinkOrders(n, E) ==
    IF n = 0 THEN {<<>>}
    ELSE {Append(L, p) : L \in LinkOrders(n - 1, E), p \in Perms(Incident(n, E))}

PointOf(v) ==
    CASE v = 1 -> <<0, 0, 0>>
      [] v = 2 -> <<1, 1, 1>>
      [] OTHER -> <<5, v - 2, v - 2>>
PlacedByIndex(V) == [v \in V |-> PointOf(v)]

Identity == [m |-> <<<<1, 0, 0>>, <<0, 1, 0>>, <<0, 0, 1>>>>, t |-> <<0, 0, 0>>]
Scale2   == [m |-> <<<<2, 0, 0>>, <<0, 2, 0>>, <<0, 0, 2>>>>, t |-> <<0, 0, 0>>]
\* a quarter turn about z, mirrored in z, and moved
TurnedMirrored ==
    [m |-> <<<<0, -1, 0>>, <<1, 0, 0>>, <<0, 0, -1>>>>, t |-> <<3, -2, 1>>]

Modes == {<<a, b, c>> : a \in BOOLEAN, b \in BOOLEAN, c \in BOOLEAN}

\* Range lists.
Item(um, lo, ux, hi) ==
    [ use_min |-> um, min_value |-> lo, use_max |-> ux, max_value |-> hi, label |-> 0 ]
ListsOf(S, n) == UNION {[1..k -> S] : k \in 0..n}

NoMesh ==
    /\ verts = {} /\ edges = {} /\ faces = {}
    /\ co = <<>> /\ link_edges = <<>> /\ hash_order = <<>>
    /\ matrix_world = Identity

NothingSelected == vsel = {} /\ esel = {} /\ fsel = {}

(***************************************************************************)
(* SpecRanges: the range list under its operators, from register() on.     *)
(***************************************************************************)
InitListOps ==
    /\ InitRanges
    /\ NoMesh
    /\ mesh_select_mode = <<TRUE, FALSE, FALSE>>
    /\ NothingSelected
    /\ InitRun

NextListOps ==
    \/ add_range
    \/ remove_range
    \/ move_range_up
    \/ move_range_down
    \/ panel_toggle_use_min
    \/ panel_toggle_use_max

SpecRanges == InitListOps /\ [][NextListOps]_vars

\* The active index is -1 exactly when the list is empty, and a position of the
\* list otherwise.
IndexValid ==
    /\ (ls_ranges_index = -1) <=> (ls_ranges = <<>>)
    /\ ls_ranges # <<>> => 0 <= ls_ranges_index /\ ls_ranges_index < Len(ls_ranges)

\* A remove step removes the item at a position of the list.
RemoveInside ==
    op' = "remove_range" =>
        /\ 0 <= ls_ranges_index /\ ls_ranges_index < Len(ls_ranges)
        /\ ls_ranges' = RemoveAt(ls_ranges, ls_ranges_index)
        /\ Len(ls_ranges') = Len(ls_ranges) - 1

\* A move step keeps the length and the items, and the active index follows the
\* item that was active.
MoveKeeps ==
    op' = "move_range" =>
        /\ Len(ls_ranges') = Len(ls_ranges)
        /\ IsPermutation(ls_ranges, ls_ranges')
        /\ 0 <= ls_ranges_index' /\ ls_ranges_index' < Len(ls_ranges')
        /\ ls_ranges'[ls_ranges_index' + 1] = ls_ranges[ls_ranges_index + 1]
        /\ \A k \in DOMAIN ls_ranges :
              k - 1 \notin {ls_ranges_index, ls_ranges_index'} => ls_ranges'[k] = ls_ranges[k]

\* C10: from the registered state, under add_range, remove_range and
\* move_range (each run when its poll allows it), the active index is -1 iff the
\* list is empty and otherwise a position of the list; remove_range removes
\* inside the list; move_range keeps length and items and the index follows
\* the moved item.
C10_ActiveIndexValid ==
    /\ []IndexValid
    /\ [][RemoveInside /\ MoveKeeps]_vars

\* A list that lost an item after its items had been reordered.
C10_Witness ==
    /\ op = "remove_range"
    /\ Len(ls_ranges) >= 2
    /\ ls_ranges[1].label > ls_ranges[2].label
    /\ ls_ranges_index = 1

(***************************************************************************)
(* SpecParts: the select operator on every mesh of up to MaxVerts          *)
(* vertices, with every order of the edges around each vertex and every    *)
(* order in which the unvisited set hands out its vertices.                *)
(***************************************************************************)
Unbounded == [NewItem EXCEPT !.label = 1]

InitParts ==
    /\ \E n \in 0..MaxVerts :
         /\ verts = 1..n
         /\ \E E \in SUBSET AllEdges(1..n) :
              /\ edges = E
              /\ faces = Triangles(1..n, E)
              /\ link_edges \in LinkOrders(n, E)
         /\ hash_order \in Perms(1..n)
         /\ co = PlacedByIndex(1..n)
    /\ matrix_world = Identity
    /\ ls_ranges = <<Unbounded>>
    /\ ls_ranges_index = 0
    /\ mesh_select_mode = <<TRUE, TRUE, TRUE>>
    /\ NothingSelected
    /\ InitRun

NextParts == select_by_ranges

SpecParts == InitParts /\ [][NextParts]_vars

\* Connectivity, stated on the mesh alone: u and v are joined by a path of at most
\* |verts| edges.
StepRel == {<<u, v>> \in verts \X verts : u = v \/ {u, v} \in edges}
ComposeRel(R, S) ==
    {<<a, c>> \in verts \X verts : \E b \in verts : <<a, b>> \in R /\ <<b, c>> \in S}
RECURSIVE PathsWithin(_)
PathsWithin(k) ==
    IF k = 0 THEN {<<v, v>> : v \in verts} ELSE ComposeRel(PathsWithin(k - 1), StepRel)
Connected(u, v) == <<u, v>> \in PathsWithin(Cardinality(verts))

PartOf(v) == {i \in DOMAIN parts : v \in parts[i]}

\* C1: after a run, parts is a partition of the vertex set into maximal
\* connected components: no part is empty, every vertex lies in exactly one
\* part, and two vertices share a part iff a path of edges joins them.
C1_PartsArePartition ==
    op = "select_by_ranges" =>
        /\ \A i \in DOMAIN parts : parts[i] # {} /\ parts[i] \subseteq verts
        /\ \A v \in verts : Cardinality(PartOf(v)) = 1
        /\ \A u, v \in verts : (PartOf(u) \cap PartOf(v) # {}) <=> Connected(u, v)

\* A run on a mesh with a path of two edges whose middle vertex is handed out last,
\* beside the runs on the empty mesh and on meshes without edges.
C1_Witness ==
    /\ op = "select_by_ranges"
    /\ Cardinality(verts) = 3
    /\ edges = {{1, 2}, {2, 3}}
    /\ hash_order[1] = 1
    /\ parts = <<{1, 2, 3}>>

(***************************************************************************)
(* SpecMatch: the select operator on meshes whose parts have the volumes    *)
(* 0, 1 and 5 (and 8 and 40 under the scaling matrix), with every range    *)
(* list of up to MaxList items over the bounds 1, 2, 5 and 8.                *)
(***************************************************************************)
\* A bound that is switched off holds the value that would hurt most if read.
MatchItems ==
    { Item(FALSE, Units(8), FALSE, Units(1)),
      Item(TRUE,  Units(1), FALSE, Units(1)),
      Item(TRUE,  Units(2), FALSE, Units(1)),
      Item(FALSE, Units(8), TRUE,  Units(1)),
      Item(FALSE, Units(8), TRUE,  Units(5)),
      Item(TRUE,  Units(1), TRUE,  Units(5)),
      Item(TRUE,  Units(1), TRUE,  Units(1)),
      Item(TRUE,  Units(2), TRUE,  Units(1)),
      Item(TRUE,  Units(8), TRUE,  Units(5)) }

MatchGraphs == {{}, {{1, 2}}, {{1, 3}}, {{1, 2}, {1, 3}, {2, 3}}}

InitMatch ==
    /\ verts = 1..3
    /\ edges \in MatchGraphs
    /\ faces = Triangles(verts, edges)
    /\ link_edges = LinkAscending(verts, edges)
    /\ hash_order = AscendingSeq(verts)
    /\ co = PlacedByIndex(verts)
    /\ matrix_world \in {Identity, Scale2, TurnedMirrored}
    /\ ls_ranges \in ListsOf(MatchItems, MaxList)
    /\ ls_ranges_index = Len(ls_ranges) - 1
    /\ mesh_select_mode \in
         {<<TRUE, TRUE, TRUE>>, <<TRUE, FALSE, FALSE>>, <<FALSE, TRUE, TRUE>>,
          <<FALSE, FALSE, FALSE>>}
    /\ \E all \in BOOLEAN :
         /\ vsel = IF all THEN verts ELSE {}
         /\ esel = IF all THEN edges ELSE {}
         /\ fsel = IF all THEN faces ELSE {}
    /\ InitRun

NextMatch == select_by_ranges

SpecMatch == InitMatch /\ [][NextMatch]_vars

\* The range test as the claim words it, on the items of the list.
Passes(item, vol) ==
    /\ item.use_min => vol >= item.min_value
    /\ item.use_max => vol <= item.max_value

PassingRanges(vol) == {k \in DOMAIN ls_ranges : Passes(ls_ranges[k], vol)}

\* C2: a component is matched iff some range of the list passes its volume
\* (both bounds inclusive, a bound switched off not tested, no range in an empty
\* list); the loop skips every failing range and stops at the first passing one;
\* with the vertex flag on, the matched components are the selected ones.
C2_MatchedIffSomeRangePasses ==
    op = "select_by_ranges" =>
        \A i \in DOMAIN parts :
            LET passing == PassingRanges(volumes[i])
            IN  /\ (hits[i] # 0) <=> (passing # {})
                /\ passing # {} => hits[i] = SetMin(passing)
                /\ mesh_select_mode[1] => ((parts[i] \subseteq vsel) <=> (passing # {}))

\* A run in which a part is matched by the second range after the first failed
\* on an inclusive bound's far side, while another part matches nothing.
C2_Witness ==
    /\ op = "select_by_ranges"
    /\ Len(ls_ranges) = 2
    /\ \E i, j \in DOMAIN parts :
         /\ hits[i] = 2
         /\ ls_ranges[2].use_min /\ volumes[i] = ls_ranges[2].min_value
         /\ hits[j] = 0

IsRangeA(item) == ~item.use_min /\ item.use_max /\ item.max_value = Units(1)
IsRangeB(item) == item.use_min /\ item.min_value = Units(2) /\ ~item.use_max

ElementsOf(comp) ==
    [ v |-> comp,
      e |-> {e \in edges : e \cap comp # {}},
      f |-> {f \in faces : f \cap comp # {}} ]

\* C4 as claimed: with the list [A: max 1 only; B: min 2 only], a part of
\* volume 5 matches neither range, so the run selects none of its vertices,
\* edges or faces.
C4_VolumeFiveMatchesNeither ==
    (op = "select_by_ranges" /\ Len(ls_ranges) = 2
        /\ IsRangeA(ls_ranges[1]) /\ IsRangeB(ls_ranges[2])) =>
        \A i \in DOMAIN parts :
            volumes[i] = Units(5) =>
                LET el == ElementsOf(parts[i])
                IN  /\ hits[i] = 0
                    /\ el.v \cap vsel \subseteq last.before[1]
                    /\ el.e \cap esel \subseteq last.before[2]
                    /\ el.f \cap fsel \subseteq last.before[3]
                    /\ mesh_select_mode[1] => el.v \cap vsel = {}
                    /\ mesh_select_mode[2] => el.e \cap esel = {}
                    /\ mesh_select_mode[3] => el.f \cap fsel = {}

\* C4 as amended: with the list [A: max 1 only; B: min 2 only], a part of
\* volume 5 fails A, is matched by B (5 >= 2), and the run selects its
\* vertices, edges and faces for every element type whose flag is on.
C4_VolumeFiveMatchesB ==
    (op = "select_by_ranges" /\ Len(ls_ranges) = 2
        /\ IsRangeA(ls_ranges[1]) /\ IsRangeB(ls_ranges[2])) =>
        \A i \in DOMAIN parts :
            volumes[i] = Units(5) =>
                LET el == ElementsOf(parts[i])
                IN  /\ hits[i] = 2
                    /\ mesh_select_mode[1] => el.v \subseteq vsel
                    /\ mesh_select_mode[2] => el.e \subseteq esel
                    /\ mesh_select_mode[3] => el.f \subseteq fsel

\* A run under [A, B] on the triangle with its face, of volume 5, all flags on.
C4_Witness ==
    /\ op = "select_by_ranges"
    /\ Len(ls_ranges) = 2 /\ IsRangeA(ls_ranges[1]) /\ IsRangeB(ls_ranges[2])
    /\ mesh_select_mode = <<TRUE, TRUE, TRUE>>
    /\ faces # {}
    /\ \E i \in DOMAIN parts : volumes[i] = Units(5) /\ parts[i] = verts

Inverted(item) == item.use_min /\ item.use_max /\ item.min_value > item.max_value

\* C8: an inverted range is handed to the loop as it stands and stops the loop
\* for no volume; under a list of inverted ranges alone no part is matched and
\* the run ends with every element type whose flag is on cleared, the others
\* as they were.
C8_InvertedNeverMatches ==
    op = "select_by_ranges" =>
        /\ \A k \in DOMAIN ls_ranges :
              Inverted(ls_ranges[k]) =>
                /\ last.ranges[k] = <<Some(ls_ranges[k].min_value), Some(ls_ranges[k].max_value)>>
                /\ \A i \in DOMAIN parts : hits[i] # k
        /\ (ls_ranges # <<>> /\ \A k \in DOMAIN ls_ranges : Inverted(ls_ranges[k])) =>
                /\ \A i \in DOMAIN parts : hits[i] = 0
                /\ vsel = IF mesh_select_mode[1] THEN {} ELSE last.before[1]
                /\ esel = IF mesh_select_mode[2] THEN {} ELSE last.before[2]
                /\ fsel = IF mesh_select_mode[3] THEN {} ELSE last.before[3]

\* A run under two inverted ranges on a part whose volume lies between the
\* swapped bounds of the first, from a state with everything selected.
C8_Witness ==
    /\ op = "select_by_ranges"
    /\ Len(ls_ranges) = 2
    /\ \A k \in DOMAIN ls_ranges : Inverted(ls_ranges[k])
    /\ ls_ranges[1] # ls_ranges[2]
    /\ mesh_select_mode[1]
    /\ last.before[1] = verts
    /\ \E i \in DOMAIN parts :
         /\ volumes[i] >= ls_ranges[1].max_value
         /\ volumes[i] <= ls_ranges[1].min_value

(***************************************************************************)
(* SpecMask: the select operator on every mesh of up to MaxVerts vertices, *)
(* under every combination of the three mode flags, from prior selections *)
(* of every vertex set, run again and again.                               *)
(***************************************************************************)
MinOnly(lo) == [NewItem EXCEPT !.use_min = TRUE, !.min_value = lo]
MaxOnly(hi) == [NewItem EXCEPT !.use_max = TRUE, !.max_value = hi]
Between(lo, hi) ==
    [NewItem EXCEPT !.use_min = TRUE, !.min_value = lo, !.use_max = TRUE, !.max_value = hi]

MaskLists ==
    { <<>>,
      <<NewItem>>,
      <<MinOnly(Units(1))>>,
      <<Between(Units(2), Units(1)), MaxOnly(Units(1))>> }

\* Prior selections: every set of vertices with the edges and faces it spans, and
\* the two states in which the element types disagree most.
PriorSelections(V, E, F) ==
    {<<W, {e \in E : e \subseteq W}, {f \in F : f \subseteq W}>> : W \in SUBSET V}
        \cup {<<{}, E, F>>, <<V, {}, {}>>}

InitMask ==
    /\ \E n \in 0..MaxVerts :
         /\ verts = 1..n
         /\ edges \in SUBSET AllEdges(1..n)
         /\ faces \in {{}, Triangles(1..n, edges)}
         /\ link_edges = LinkAscending(1..n, edges)
         /\ hash_order = AscendingSeq(1..n)
         /\ co = PlacedByIndex(1..n)
    /\ matrix_world = Identity
    /\ ls_ranges \in MaskLists
    /\ ls_ranges_index = Len(ls_ranges) - 1
    /\ mesh_select_mode \in Modes
    /\ \E prior \in PriorSelections(verts, edges, faces) :
         vsel = prior[1] /\ esel = prior[2] /\ fsel = prior[3]
    /\ InitRun

NextMask == select_by_ranges

SpecMask == InitMask /\ [][NextMask]_vars

MatchedParts == {i \in DOMAIN parts : PassingRanges(volumes[i]) # {}}

\* C5: with the vertex flag on, after a run a vertex is selected iff its part
\* matched a range, whatever was selected before.
C5_VertexMaskOverwritten ==
    (op = "select_by_ranges" /\ mesh_select_mode[1]) =>
        \A v \in verts : (v \in vsel) <=> (\E i \in MatchedParts : v \in parts[i])

\* A run with the vertex flag on that deselected a vertex of an unmatched part
\* and selected a vertex of a matched part.
C5_Witness ==
    /\ op = "select_by_ranges" /\ mesh_select_mode[1]
    /\ \E v \in last.before[1] : v \notin vsel
    /\ \E v \in vsel : v \notin last.before[1]

\* C6: with the edge flag on, after a run an edge is selected iff both its ends
\* lie in one matched part, whatever was selected before; no selected edge has
\* exactly one end in a matched part.
C6_EdgeMaskOverwritten ==
    (op = "select_by_ranges" /\ mesh_select_mode[2]) =>
        /\ \A e \in edges : (e \in esel) <=> (\E i \in MatchedParts : e \subseteq parts[i])
        /\ \A e \in esel : \A i \in MatchedParts : Cardinality(e \cap parts[i]) # 1
        /\ esel \subseteq edges

\* A run with the edge flag on and the vertex flag off that selected an edge of a
\* matched part beside an unmatched part, from a state with that edge unselected.
C6_Witness ==
    /\ op = "select_by_ranges" /\ mesh_select_mode[2] /\ ~mesh_select_mode[1]
    /\ \E e \in esel : e \notin last.before[2]
    /\ \E i \in DOMAIN parts : i \notin MatchedParts
    /\ last.before[1] # {}

\* C7: with the face flag on, after a run a face is selected iff all its
\* vertices lie in one matched part, whatever was selected before and whether
\* the matching range has bounds or none.
C7_FaceMaskOverwritten ==
    (op = "select_by_ranges" /\ mesh_select_mode[3]) =>
        /\ \A f \in faces : (f \in fsel) <=> (\E i \in MatchedParts : f \subseteq parts[i])
        /\ fsel \subseteq faces

\* A run with the face flag on that selected a face under a range without bounds.
C7_Witness ==
    /\ op = "select_by_ranges" /\ mesh_select_mode[3]
    /\ ls_ranges = <<NewItem>>
    /\ \E f \in fsel : f \notin last.before[3]

\* The last run started on the state the run before it left, with the same flags
\* and the same ranges.
RerunSame ==
    /\ op = "select_by_ranges"
    /\ last.prev.ran
    /\ last.prev.mode = last.mode
    /\ last.prev.ranges = last.ranges
    /\ last.prev.after = last.before

\* C9: a run on the state a run left, with the mesh, the ranges and the flags
\* the same, leaves the three masks as that run left them.
C9_Idempotent ==
    RerunSame => <<vsel, esel, fsel>> = last.prev.after

\* The state after a second run with all flags on, under a range with a bound,
\* on a mesh whose vertices, edges and faces the first run had selected.
C9_Witness ==
    /\ RerunSame
    /\ mesh_select_mode = <<TRUE, TRUE, TRUE>>
    /\ ls_ranges = <<MinOnly(Units(1))>>
    /\ vsel # {} /\ esel # {} /\ fsel # {}

(***************************************************************************)
(* SpecOrder: runs of the select operator between which the user reorders  *)
(* the range list with the move operator; the lists hold two or more       *)
(* different ranges.                                                       *)
(***************************************************************************)
OrderItems ==
    { MaxOnly(Units(1)), MinOnly(Units(2)), Between(Units(1), Units(5)),
      Between(Units(2), Units(1)), NewItem }

InitOrder ==
    /\ verts = 1..3
    /\ edges \in MatchGraphs
    /\ faces = Triangles(verts, edges)
    /\ link_edges = LinkAscending(verts, edges)
    /\ hash_order = AscendingSeq(verts)
    /\ co = PlacedByIndex(verts)
    /\ matrix_world = Identity
    /\ ls_ranges \in {l \in ListsOf(OrderItems, MaxList) : Cardinality(Range(l)) >= 2}
    /\ ls_ranges_index = Len(ls_ranges) - 1
    /\ mesh_select_mode \in {<<TRUE, TRUE, TRUE>>, <<TRUE, FALSE, FALSE>>}
    /\ \E all \in BOOLEAN :
         /\ vsel = IF all THEN verts ELSE {}
         /\ esel = IF all THEN edges ELSE {}
         /\ fsel = IF all THEN faces ELSE {}
    /\ InitRun

NextOrder ==
    \/ select_by_ranges
    \/ move_range_up
    \/ move_range_down

\* The user goes on reordering the list and running the select operator.
SpecOrder ==
    /\ InitOrder
    /\ [][NextOrder]_vars
    /\ WF_vars(move_range_up \/ move_range_down)
    /\ []<>(op = "select_by_ranges")

\* The last run started on the state the run before it left, with the same flags
\* and with the same ranges in another order.
RerunReordered ==
    /\ op = "select_by_ranges"
    /\ last.prev.ran
    /\ last.prev.mode = last.mode
    /\ last.prev.after = last.before
    /\ last.prev.ranges # last.ranges
    /\ IsPermutation(last.prev.ranges, last.ranges)

====
